---- MODULE Spec2Model ----
(***************************************************************************)
(* Model of HW2/image_generator.py: class ImageGenerator.                  *)
(*                                                                         *)
(* An image is a record [h, w, nd, ch, px]: nd is the number of array      *)
(* dimensions (2 for a single-channel image, 3 otherwise, 0 for None), ch  *)
(* the size of the third axis (0 when nd = 2) and px the pixel content, a  *)
(* function from <<row, column>> to the tuple of channel values.           *)
(* Floating-point quantities are kept as integers: a scale and a           *)
(* transparency in hundredths, a noise percentage in whole percents, a     *)
(* random.random() draw in hundredths, |cos| + |sin| in millionths.        *)
(* The generators behind `random` and `np.random` are deterministic        *)
(* functions of their state; they are modelled as two linear congruential  *)
(* generators.                                                             *)
(***************************************************************************)
EXTENDS Integers, Sequences, FiniteSets, TLC

VARIABLES
    cfg,         \* self.img_size, num_imgs, min_cells, max_cells, seed + the files the loader serves
    loader,      \* calls made so far on self.dataset_loader
    rng,         \* state of the process-wide `random` generator
    nprng,       \* state of the process-wide `np.random` generator
    pc,          \* position in the program
    run,         \* 1 or 2: which of two independent runs is executing
    idx,         \* loop variable of generate_and_save
    num_cells,   \* num_cells_this_img
    coords,      \* coords of _generate_image / return value of _generate_cell_coords
    i,           \* loop variable of _generate_image
    background,  \* the image being composed
    cell,        \* the sprite loaded for the current iteration
    saved,       \* files written by cv2.imwrite, in order
    log,         \* history: the calls made, in order
    exc,         \* the exception that ended the run, or NoExc
    ov,          \* history: what the last _overlay call did
    noised,      \* history: pixels overwritten by the last noise_image call
    prev,        \* outcome of the first run, kept for the second
    call         \* arguments of a direct call of one method

vars == <<cfg, loader, rng, nprng, pc, run, idx, num_cells, coords, i,
          background, cell, saved, log, exc, ov, noised, prev, call>>

(***************************************************************************)
(* Bounds of the model.                                                    *)
(***************************************************************************)
\* unseeded generators start in one of the states 0 .. MaxEntropy
MaxEntropy == 3
\* seeds passed to the constructor are 1 .. MaxSeed
MaxSeed == 2
\* num_imgs ranges over 1 .. MaxImgs
MaxImgs == 2

Min(a, b) == IF a < b THEN a ELSE b
Max(a, b) == IF a > b THEN a ELSE b
Abs(a) == IF a < 0 THEN 0 - a ELSE a

None == "None"
NoExc == [type |-> "none", path |-> None]
NoneImg == [h |-> 0, w |-> 0, nd |-> 0, ch |-> 0, px |-> <<>>]

(***************************************************************************)
(* The random module.                                                      *)
(***************************************************************************)
\* one step of the generator behind `random`
RandomNext(s) == (75 * s + 74) % 65537
\* random.randint(a, b), drawn in state s (the state after the draw is RandomNext(s))
RandInt(s, a, b) == a + (RandomNext(s) % (b - a + 1))
\* one step of the generator behind `np.random`
NpNext(s) == (25173 * s + 13849) % 65536
\* one element of np.random.randint(0, 256, size=3)
NpByte(s) == NpNext(s) % 256

(***************************************************************************)
(* Images and the codec (cv2.imread, cv2.resize, cv2.warpAffine).          *)
(***************************************************************************)
Pixels(h, w) == (0 .. (h - 1)) \X (0 .. (w - 1))

\* numpy's .shape
Shape(img) == IF img.nd = 2 THEN <<img.h, img.w>> ELSE <<img.h, img.w, img.ch>>

\* shape[-1]
ShapeLast(img) == Shape(img)[Len(Shape(img))]

\* the files on disk: kind of content, size, and the value of every pixel
Files ==
    [bg_bgr    |-> [kind |-> "bgr",  h |-> 2, w |-> 3, val |-> <<10, 20, 30>>],
     bg_gray   |-> [kind |-> "gray", h |-> 2, w |-> 2, val |-> <<77>>],
     bg_bad    |-> [kind |-> "bad",  h |-> 0, w |-> 0, val |-> <<>>],
     cell_bgra |-> [kind |-> "bgra", h |-> 3, w |-> 2, val |-> <<200, 100, 50, 255>>],
     cell_half |-> [kind |-> "bgra", h |-> 2, w |-> 2, val |-> <<90, 160, 250, 128>>],
     cell_bgr  |-> [kind |-> "bgr",  h |-> 2, w |-> 2, val |-> <<5, 6, 7>>],
     cell_gray |-> [kind |-> "gray", h |-> 2, w |-> 2, val |-> <<99>>],
     cell_bad  |-> [kind |-> "bad",  h |-> 0, w |-> 0, val |-> <<>>]]

Uniform(h, w, nd, val) ==
    [h |-> h, w |-> w, nd |-> nd, ch |-> IF nd = 2 THEN 0 ELSE Len(val),
     px |-> [p \in Pixels(h, w) |-> val]]

\* cv2.imread(path, cv2.IMREAD_COLOR): always 3 channels, or None
ImreadColor(path) ==
    LET f == Files[path] IN
    CASE f.kind = "bad"  -> NoneImg
      [] f.kind = "gray" -> Uniform(f.h, f.w, 3, <<f.val[1], f.val[1], f.val[1]>>)
      [] f.kind = "bgr"  -> Uniform(f.h, f.w, 3, f.val)
      [] f.kind = "bgra" -> Uniform(f.h, f.w, 3, SubSeq(f.val, 1, 3))

\* cv2.imread(path, cv2.IMREAD_UNCHANGED): the file's own channels, or None
ImreadUnchanged(path) ==
    LET f == Files[path] IN
    CASE f.kind = "bad"  -> NoneImg
      [] f.kind = "gray" -> Uniform(f.h, f.w, 2, f.val)
      [] f.kind = "bgr"  -> Uniform(f.h, f.w, 3, f.val)
      [] f.kind = "bgra" -> Uniform(f.h, f.w, 3, f.val)

\* cv2.resize(img, (w, h)) for w, h >= 1: the sampling grid of the resize
\* (the interpolation weights are the codec's; the files are uniform)
Resize(img, w, h) ==
    [h |-> h, w |-> w, nd |-> img.nd, ch |-> img.ch,
     px |-> [p \in Pixels(h, w) |->
                img.px[<<(p[1] * img.h) \div h, (p[2] * img.w) \div w>>]]]

\* |cos(a degrees)| in millionths, a in 0 .. 360 (cv2.getRotationMatrix2D)
AbsCos(a) ==
    LET tab == <<1000000, 999848, 999391, 998630, 997564, 996195, 994522, 992546, 990268, 987688,
                 984808, 981627, 978148, 974370, 970296, 965926, 961262, 956305, 951057, 945519,
                 939693, 933580, 927184, 920505, 913545, 906308, 898794, 891007, 882948, 874620,
                 866025, 857167, 848048, 838671, 829038, 819152, 809017, 798636, 788011, 777146,
                 766044, 754710, 743145, 731354, 719340, 707107, 694658, 681998, 669131, 656059,
                 642788, 629320, 615661, 601815, 587785, 573576, 559193, 544639, 529919, 515038,
                 500000, 484810, 469472, 453990, 438371, 422618, 406737, 390731, 374607, 358368,
                 342020, 325568, 309017, 292372, 275637, 258819, 241922, 224951, 207912, 190809,
                 173648, 156434, 139173, 121869, 104528, 87156, 69756, 52336, 34899, 17452,
                 0>>
        r == a % 180
    IN  tab[(IF r <= 90 THEN r ELSE 180 - r) + 1]

\* |sin(a degrees)| in millionths
AbsSin(a) == AbsCos(a + 270)

\* cv2.warpAffine(cell, matrix, (new_w, new_h)): a canvas of new_h x new_w in
\* which the rotated sprite is centred and the corners it leaves uncovered
\* take the border value 0 in every channel
WarpAffine(img, angle, new_w, new_h) ==
    LET border == [c \in 1 .. Len(img.px[<<0, 0>>]) |-> 0]
    IN  [h |-> new_h, w |-> new_w, nd |-> img.nd, ch |-> img.ch,
         px |-> [p \in Pixels(new_h, new_w) |->
                    IF /\ angle % 90 # 0
                       /\ Abs(2 * p[1] + 1 - new_h) + Abs(2 * p[2] + 1 - new_w) > new_h
                    THEN border
                    ELSE img.px[<<(p[1] * img.h) \div new_h, (p[2] * img.w) \div new_w>>]]]

\* _rotate_cell(cell, cell_h, cell_w), drawing the angle in generator state s
RotateCell(cl, cell_h, cell_w, s) ==
    LET angle == RandInt(s, 0, 360)
        new_w == ((cell_h * AbsSin(angle)) + (cell_w * AbsCos(angle))) \div 1000000
        new_h == ((cell_h * AbsCos(angle)) + (cell_w * AbsSin(angle))) \div 1000000
    IN  [img |-> WarpAffine(cl, angle, new_w, new_h), h |-> new_h, w |-> new_w,
         angle |-> angle, rng |-> RandomNext(s)]

\* a Python slice bound x on an axis of length n
SliceBound(n, x) == IF x < 0 THEN Max(n + x, 0) ELSE Min(x, n)

\* cell[:cell_h, :cell_w]
Crop(img, cell_h, cell_w) ==
    LET h == SliceBound(img.h, cell_h)
        w == SliceBound(img.w, cell_w)
    IN  [h |-> h, w |-> w, nd |-> img.nd, ch |-> img.ch,
         px |-> [p \in Pixels(h, w) |-> img.px[p]]]


\* a blend that ignores the transparency argument
BlendValueNoTransparency(a, T, b, v) == (((255 - a) * b) + (a * v)) \div 255

\* one channel of (1 - alpha) * background + alpha * cell stored into a uint8
\* array, where alpha = (a / 255.0) * transparency and T = 100 * transparency
BlendValue(a, T, b, v) == (((25500 - (a * T)) * b) + ((a * T) * v)) \div 25500

\* numpy accepts a value axis of length vd for a target axis of length rd
BroadcastOK(vd, rd) == vd = rd \/ vd = 1

\* the sprite is clipped when it would pass the background's edge
\* (the conditions of the two `if`s of _overlay)
ClipLen(offset, len, extent) == IF offset + len > extent THEN extent - offset ELSE len

\* the test that selects the alpha blend
HasAlpha(cl) == ShapeLast(cl) = 4

\* _overlay(background, cell, coord, transparency), with T = 100 * transparency,
\* drawing scale and angle from generator state s
Overlay(bg, cl, coord, T, img_size, s) ==
    LET pct == RandInt(s, 5, 20)
        s1 == RandomNext(s)
        cell_size == (Min(img_size[1], img_size[2]) * pct) \div 100
        none == [top |-> 0, bottom |-> 0, left |-> 0, right |-> 0,
                 clip_h |-> 0, clip_w |-> 0, new_h |-> 0, new_w |-> 0,
                 nd |-> cl.nd, ch |-> cl.ch, coord |-> coord, T |-> T,
                 before |-> bg, sprite |-> NoneImg, blended |-> FALSE]
    IN  IF cell_size = 0
        THEN [bg |-> bg, rng |-> s1, exc |-> "cv2.error", info |-> none]
        ELSE
        LET rot == RotateCell(Resize(cl, cell_size, cell_size), cell_size, cell_size, s1)
            cell_h == ClipLen(coord.h, rot.h, bg.h)
            cell_w == ClipLen(coord.w, rot.w, bg.w)
            clipped == Crop(rot.img, cell_h, cell_w)
            top == SliceBound(bg.h, coord.h)
            bottom == Max(SliceBound(bg.h, coord.h + cell_h), top)
            left == SliceBound(bg.w, coord.w)
            right == Max(SliceBound(bg.w, coord.w + cell_w), left)
            info == [top |-> top, bottom |-> bottom, left |-> left, right |-> right,
                     clip_h |-> clipped.h, clip_w |-> clipped.w,
                     new_h |-> rot.h, new_w |-> rot.w,
                     nd |-> cl.nd, ch |-> cl.ch, coord |-> coord, T |-> T,
                     before |-> bg, sprite |-> clipped, blended |-> FALSE]
        IN  IF ~HasAlpha(clipped)
            THEN [bg |-> bg, rng |-> rot.rng, exc |-> "none", info |-> info]
            ELSE IF clipped.nd = 2
            THEN [bg |-> bg, rng |-> rot.rng, exc |-> "IndexError", info |-> info]
            ELSE IF ~(BroadcastOK(clipped.h, bottom - top) /\ BroadcastOK(clipped.w, right - left))
            THEN [bg |-> bg, rng |-> rot.rng, exc |-> "ValueError", info |-> info]
            ELSE
            LET src(p) == clipped.px[<<IF clipped.h = 1 THEN 0 ELSE p[1] - top,
                                       IF clipped.w = 1 THEN 0 ELSE p[2] - left>>]
                out == [p \in Pixels(bg.h, bg.w) |->
                          IF p[1] >= top /\ p[1] < bottom /\ p[2] >= left /\ p[2] < right
                          THEN [c \in 1 .. Len(bg.px[p]) |->
                                   IF c <= 3
                                   THEN BlendValue(src(p)[4], T, bg.px[p][c], src(p)[c])
                                   ELSE bg.px[p][c]]
                          ELSE bg.px[p]]
            IN  [bg |-> [bg EXCEPT !.px = out], rng |-> rot.rng, exc |-> "none",
                 info |-> [info EXCEPT !.blended = TRUE]]


\* a noise test with <= in place of <
NoiseHitInclusive(r, percent) == r <= percent

\* the test of noise_image: random.random() < percent / 100, with r = 100 * random.random()
NoiseHit(r, percent) == r < percent

\* noise_image, the body of the inner loop at pixel p: acc holds the pixels,
\* the two generator states and the set of pixels overwritten so far
NoisePixel(acc, p, percent) ==
    IF NoiseHit(RandInt(acc.rng, 0, 99), percent)
    THEN [px |-> [acc.px EXCEPT ![p] = <<NpByte(acc.nprng), NpByte(NpNext(acc.nprng)),
                                        NpByte(NpNext(NpNext(acc.nprng)))>>],
          rng |-> RandomNext(acc.rng),
          nprng |-> NpNext(NpNext(NpNext(acc.nprng))),
          hit |-> acc.hit \cup {p}]
    ELSE [acc EXCEPT !.rng = RandomNext(acc.rng)]

\* noise_image, `for j in range(image.shape[1])` from column j on
RECURSIVE NoiseCols(_, _, _, _, _)
NoiseCols(acc, r, j, w, percent) ==
    IF j >= w
    THEN acc
    ELSE LET nxt == NoisePixel(acc, <<r, j>>, percent)
         IN  IF nxt.rng >= 0 THEN NoiseCols(nxt, r, j + 1, w, percent) ELSE acc

\* noise_image, `for i in range(image.shape[0])` from row r on
RECURSIVE NoiseRows(_, _, _, _, _)
NoiseRows(acc, r, h, w, percent) ==
    IF r >= h
    THEN acc
    ELSE LET nxt == NoiseCols(acc, r, 0, w, percent)
         IN  IF nxt.rng >= 0 THEN NoiseRows(nxt, r + 1, h, w, percent) ELSE acc

\* noise_image(image, percent), drawing from generator states s and ns
NoiseImage(img, percent, s, ns) ==
    LET r == NoiseRows([px |-> img.px, rng |-> s, nprng |-> ns, hit |-> {}],
                       0, img.h, img.w, percent)
    IN  [img |-> [img EXCEPT !.px = r.px], rng |-> r.rng, nprng |-> r.nprng, hit |-> r.hit]


\* an upper bound without the 1% margin
CoordUpperNoMargin(n) == n

\* the largest value randint may return for an axis of length n: n - int(n * 0.01)
CoordUpper(n) == n - (n \div 100)

\* _generate_cell_coords(count), drawing from generator state s
RECURSIVE GenerateCellCoords(_, _, _)
GenerateCellCoords(count, img_size, s) ==
    IF count <= 0
    THEN [coords |-> <<>>, rng |-> s]
    ELSE LET h == RandInt(s, 0, CoordUpper(img_size[1]))
             w == RandInt(RandomNext(s), 0, CoordUpper(img_size[2]))
             rest == GenerateCellCoords(count - 1, img_size, RandomNext(RandomNext(s)))
         IN  [coords |-> <<[h |-> h, w |-> w]>> \o rest.coords, rng |-> rest.rng]


\* a load that never notices that the decode failed
LoadFailedIgnored(image) == FALSE

\* the test of _load_image: `image is None`
LoadFailed(image) == image.nd = 0

\* _load_image(image_path, resize, with_alpha)
LoadImage(path, resize, with_alpha, img_size) ==
    LET image == IF with_alpha THEN ImreadUnchanged(path) ELSE ImreadColor(path)
    IN  IF LoadFailed(image)
        THEN [img |-> NoneImg, exc |-> [type |-> "ValueError", path |-> path]]
        ELSE IF resize /\ image.nd = 0   \* cv2.resize rejects None
        THEN [img |-> NoneImg, exc |-> [type |-> "cv2.error", path |-> None]]
        ELSE [img |-> IF resize THEN Resize(image, img_size[2], img_size[1]) ELSE image,
              exc |-> NoExc]

(***************************************************************************)
(* The dataset loader: get_random_background() and get_random_cell()      *)
(* return paths.  The loader here is a deterministic stub that serves the  *)
(* paths of a list in turn.                                                *)
(***************************************************************************)
Providers ==
    {[bgs |-> <<"bg_bgr">>,           cells |-> <<"cell_bgra", "cell_half">>],
     [bgs |-> <<"bg_gray", "bg_bgr">>, cells |-> <<"cell_bgr", "cell_bgra">>],
     [bgs |-> <<"bg_bgr", "bg_bad">>, cells |-> <<"cell_bgra">>],
     [bgs |-> <<"bg_bgr">>,           cells |-> <<"cell_half", "cell_bad">>],
     [bgs |-> <<"bg_bgr">>,           cells |-> <<"cell_gray">>]}

\* the path returned by the n-th call (n from 0) on a list of paths
Serve(paths, n) == paths[(n % Len(paths)) + 1]

(***************************************************************************)
(* Configurations: ImageGenerator(dataset_loader, img_size, num_imgs,      *)
(* min_cells, max_cells, seed), with min_cells <= max_cells; seed = -1     *)
(* stands for seed=None.                                                   *)
(***************************************************************************)
ImgSizes == {<<20, 20>>, <<8, 10>>}
CellRanges == {<<0, 1>>, <<1, 2>>, <<2, 2>>}
Seeds == {-1} \cup (1 .. MaxSeed)
Entropy == 0 .. MaxEntropy

Configs ==
    [img_size : ImgSizes, num_imgs : 1 .. MaxImgs, cells : CellRanges,
     seed : Seeds, provider : Providers]

Event(ev, img, n) == [ev |-> ev, img |-> img, n |-> n]

NoOverlay == [exc |-> "none", called |-> FALSE]
NoCall == [op |-> "none"]
NoPrev == [saved |-> <<>>, exc |-> NoExc, log |-> <<>>]

Init ==
    /\ cfg \in Configs
    /\ loader = [bg |-> 0, cell |-> 0, last |-> None]
    /\ rng \in Entropy
    /\ nprng \in Entropy
    /\ pc = "new"
    /\ run = 1
    /\ idx = 0
    /\ num_cells = 0
    /\ coords = <<>>
    /\ i = 0
    /\ background = NoneImg
    /\ cell = NoneImg
    /\ saved = <<>>
    /\ log = <<>>
    /\ exc = NoExc
    /\ ov = NoOverlay
    /\ noised = {}
    /\ prev = NoPrev
    /\ call = NoCall

\* `for j in range(n)`: the position after j has been advanced
ForRange(j, n, body, exit) == IF j < n THEN body ELSE exit


\* file names counted from 1
ResultNameFromOne(n) == n + 1

\* the file name cv2.imwrite is given: result_<idx>.png
ResultName(n) == n


\* a constructor that stores the seed and never seeds the generators
ConstructUnseeded ==
    /\ pc = "new"
    /\ loader' = [bg |-> 0, cell |-> 0, last |-> None]
    /\ idx' = 0
    /\ pc' = ForRange(0, cfg.num_imgs, "image", "done")
    /\ UNCHANGED <<cfg, rng, nprng, run, num_cells, coords, i, background, cell,
                   saved, log, exc, ov, noised, prev, call>>

\* __init__: stores the configuration and seeds both generators when seed is not None
Construct ==
    /\ pc = "new"
    /\ rng' = IF cfg.seed # -1 THEN cfg.seed % 65537 ELSE rng
    /\ nprng' = IF cfg.seed # -1 THEN cfg.seed % 65536 ELSE nprng
    /\ loader' = [bg |-> 0, cell |-> 0, last |-> None]
    /\ idx' = 0
    /\ pc' = ForRange(0, cfg.num_imgs, "image", "done")
    /\ UNCHANGED <<cfg, run, num_cells, coords, i, background, cell, saved, log,
                   exc, ov, noised, prev, call>>

\* _generate_image, lines 47-49: the cell count and the placements
SampleCells ==
    /\ pc = "image"
    /\ LET k == RandInt(rng, cfg.cells[1], cfg.cells[2])
           gc == GenerateCellCoords(k, cfg.img_size, RandomNext(rng))
       IN  /\ num_cells' = k
           /\ coords' = gc.coords
           /\ rng' = gc.rng
           /\ log' = log \o <<Event("count", idx, k), Event("coords", idx, Len(gc.coords))>>
    /\ pc' = "background"
    /\ UNCHANGED <<cfg, loader, nprng, run, idx, i, background, cell, saved,
                   exc, ov, noised, prev, call>>

\* _generate_image, line 51: the background is loaded and resized
LoadBackground ==
    /\ pc = "background"
    /\ LET path == Serve(cfg.provider.bgs, loader.bg)
           r == LoadImage(path, TRUE, FALSE, cfg.img_size)
       IN  /\ loader' = [loader EXCEPT !.bg = @ + 1, !.last = path]
           /\ log' = Append(log, Event("get_random_background", idx, 0))
           /\ IF r.exc # NoExc
              THEN /\ exc' = r.exc
                   /\ pc' = "aborted"
                   /\ UNCHANGED <<background, i>>
              ELSE /\ background' = r.img
                   /\ i' = 0
                   /\ pc' = ForRange(0, num_cells, "cell", "noise")
                   /\ UNCHANGED exc
    /\ UNCHANGED <<cfg, rng, nprng, run, idx, num_cells, coords, cell, saved,
                   ov, noised, prev, call>>

\* _generate_image, line 54: one sprite is loaded
LoadCell ==
    /\ pc = "cell"
    /\ LET path == Serve(cfg.provider.cells, loader.cell)
           r == LoadImage(path, TRUE, TRUE, cfg.img_size)
       IN  /\ loader' = [loader EXCEPT !.cell = @ + 1, !.last = path]
           /\ log' = Append(log, Event("get_random_cell", idx, i))
           /\ IF r.exc # NoExc
              THEN /\ exc' = r.exc
                   /\ pc' = "aborted"
                   /\ UNCHANGED cell
              ELSE /\ cell' = r.img
                   /\ pc' = "overlay"
                   /\ UNCHANGED exc
    /\ UNCHANGED <<cfg, rng, nprng, run, idx, num_cells, coords, i, background,
                   saved, ov, noised, prev, call>>

\* _generate_image, lines 55-56: transparency is drawn and the sprite overlaid
OverlayCell ==
    /\ pc = "overlay"
    /\ LET T == RandInt(rng, 60, 100)
           o == Overlay(background, cell, coords[i + 1], T, cfg.img_size, RandomNext(rng))
       IN  /\ rng' = o.rng
           /\ ov' = [exc |-> o.exc, called |-> TRUE, info |-> o.info]
           /\ log' = Append(log, Event("overlay", idx, i))
           /\ IF o.exc # "none"
              THEN /\ exc' = [type |-> o.exc, path |-> None]
                   /\ pc' = "aborted"
                   /\ UNCHANGED <<background, i>>
              ELSE /\ background' = o.bg
                   /\ i' = i + 1
                   /\ pc' = ForRange(i + 1, num_cells, "cell", "noise")
                   /\ UNCHANGED exc
    /\ UNCHANGED <<cfg, loader, nprng, run, idx, num_cells, coords, cell, saved,
                   noised, prev, call>>

\* _apply_random_noise: the percentage is drawn and noise_image applied
ApplyRandomNoise ==
    /\ pc = "noise"
    /\ LET percent == RandInt(rng, 1, 50)
           r == NoiseImage(background, percent, RandomNext(rng), nprng)
       IN  /\ background' = r.img
           /\ rng' = r.rng
           /\ nprng' = r.nprng
           /\ noised' = r.hit
    /\ log' = Append(log, Event("noise", idx, 0))
    /\ pc' = "save"
    /\ UNCHANGED <<cfg, loader, run, idx, num_cells, coords, i, cell, saved,
                   exc, ov, prev, call>>

\* generate_and_save, line 41: the image is written, and the loop advances
Save ==
    /\ pc = "save"
    /\ saved' = Append(saved, [name |-> ResultName(idx), img |-> background])
    /\ log' = Append(log, Event("emit", idx, ResultName(idx)))
    /\ idx' = idx + 1
    /\ pc' = ForRange(idx + 1, cfg.num_imgs, "image", "done")
    /\ UNCHANGED <<cfg, loader, rng, nprng, run, num_cells, coords, i, background,
                   cell, exc, ov, noised, prev, call>>

\* a second, independent run of the same program with the same arguments:
\* a new process, whose generators start from fresh entropy
SecondRun ==
    /\ pc \in {"done", "aborted"}
    /\ run = 1
    /\ cfg.seed # -1
    /\ prev' = [saved |-> saved, exc |-> exc, log |-> log]
    /\ run' = 2
    /\ rng' \in Entropy
    /\ nprng' \in Entropy
    /\ loader' = [bg |-> 0, cell |-> 0, last |-> None]
    /\ pc' = "new"
    /\ idx' = 0
    /\ num_cells' = 0
    /\ coords' = <<>>
    /\ i' = 0
    /\ background' = NoneImg
    /\ cell' = NoneImg
    /\ saved' = <<>>
    /\ log' = <<>>
    /\ exc' = NoExc
    /\ ov' = NoOverlay
    /\ noised' = {}
    /\ UNCHANGED <<cfg, call>>

Next ==
    \/ Construct
    \/ SampleCells
    \/ LoadBackground
    \/ LoadCell
    \/ OverlayCell
    \/ ApplyRandomNoise
    \/ Save
    \/ SecondRun

Spec == Init /\ [][Next]_vars

(***************************************************************************)
(* Direct calls of single methods, with arguments drawn from bounded sets. *)
(***************************************************************************)
\* generator states a direct call may start from
CallEntropy == 0 .. (200 * MaxEntropy)

\* a generator holding only img_size, for the methods that read nothing else
SizeOnly(size) ==
    [img_size |-> size, num_imgs |-> 1, cells |-> <<0, 0>>, seed |-> -1,
     provider |-> [bgs |-> <<"bg_bgr">>, cells |-> <<"cell_bgra">>]]

IdleState ==
    /\ loader = [bg |-> 0, cell |-> 0, last |-> None]
    /\ run = 1
    /\ idx = 0
    /\ num_cells = 0
    /\ i = 0
    /\ saved = <<>>
    /\ log = <<>>
    /\ exc = NoExc
    /\ ov = NoOverlay
    /\ noised = {}
    /\ prev = NoPrev
    /\ pc = "call"

\* ---- _generate_cell_coords(count) ----
CoordSizes == {<<1, 1>>, <<20, 20>>, <<99, 100>>, <<100, 99>>, <<480, 640>>}
\* count ranges over 0 .. MaxCount
MaxCount == 3

InitCoords ==
    /\ cfg \in {SizeOnly(size) : size \in CoordSizes}
    /\ call \in [op : {"_generate_cell_coords"}, count : 0 .. MaxCount]
    /\ rng \in CallEntropy
    /\ nprng = 0
    /\ coords = <<>>
    /\ background = NoneImg
    /\ cell = NoneImg
    /\ IdleState

CallGenerateCellCoords ==
    /\ pc = "call"
    /\ call.op = "_generate_cell_coords"
    /\ LET r == GenerateCellCoords(call.count, cfg.img_size, rng)
       IN  /\ coords' = r.coords
           /\ rng' = r.rng
    /\ pc' = "ret"
    /\ UNCHANGED <<cfg, loader, nprng, run, idx, num_cells, i, background, cell,
                   saved, log, exc, ov, noised, prev, call>>

SpecCoords == InitCoords /\ [][CallGenerateCellCoords]_vars

\* ---- _overlay(background, cell, coord, transparency) ----
OverlaySizes == {<<20, 20>>}
OverlayCells == {"cell_bgra", "cell_half", "cell_bgr", "cell_gray"}
\* the placements _generate_cell_coords can return lie in 0 .. CoordUpper(n)
OverlayRows(n) == {0, n - 4, n - 1, n} \cap (0 .. CoordUpper(n))
OverlayCols(n) == {0, n - 5, n - 4, n - 3, n - 2, n - 1, n} \cap (0 .. CoordUpper(n))
\* transparency, in hundredths
OverlayT == {0, 60, 100}

InitOverlay ==
    /\ cfg \in {SizeOnly(size) : size \in OverlaySizes}
    /\ background = LoadImage("bg_bgr", TRUE, FALSE, cfg.img_size).img
    /\ cell \in {LoadImage(path, TRUE, TRUE, cfg.img_size).img : path \in OverlayCells}
    /\ call \in [op : {"_overlay"},
                 coord : [h : OverlayRows(cfg.img_size[1]), w : OverlayCols(cfg.img_size[2])],
                 T : OverlayT]
    /\ rng \in 0 .. (16 * MaxEntropy)
    /\ nprng = 0
    /\ coords = <<>>
    /\ IdleState

CallOverlay ==
    /\ pc = "call"
    /\ call.op = "_overlay"
    /\ LET o == Overlay(background, cell, call.coord, call.T, cfg.img_size, rng)
       IN  /\ rng' = o.rng
           /\ ov' = [exc |-> o.exc, called |-> TRUE, info |-> o.info]
           /\ background' = o.bg
           /\ exc' = IF o.exc = "none" THEN NoExc ELSE [type |-> o.exc, path |-> None]
    /\ pc' = "ret"
    /\ UNCHANGED <<cfg, loader, nprng, run, idx, num_cells, coords, i, cell,
                   saved, log, noised, prev, call>>

SpecOverlay == InitOverlay /\ [][CallOverlay]_vars

\* ---- noise_image(image, percent) ----
NoiseImages ==
    {Uniform(2, 2, 3, <<10, 20, 30>>), Uniform(1, 3, 3, <<0, 0, 0>>),
     Uniform(3, 2, 3, <<255, 255, 255>>)}
NoisePercents == {0, 1, 50, 99, 100}

\* call also records the np.random state the call starts in
InitNoise ==
    /\ cfg \in {SizeOnly(<<20, 20>>)}
    /\ call \in [op : {"noise_image"}, percent : NoisePercents, image : NoiseImages,
                 nprng : Entropy]
    /\ background = call.image
    /\ rng \in CallEntropy
    /\ nprng = call.nprng
    /\ coords = <<>>
    /\ cell = NoneImg
    /\ IdleState

CallNoiseImage ==
    /\ pc = "call"
    /\ call.op = "noise_image"
    /\ LET r == NoiseImage(background, call.percent, rng, nprng)
       IN  /\ background' = r.img
           /\ rng' = r.rng
           /\ nprng' = r.nprng
           /\ noised' = r.hit
    /\ pc' = "ret"
    /\ UNCHANGED <<cfg, loader, run, idx, num_cells, coords, i, cell,
                   saved, log, exc, ov, prev, call>>

SpecNoise == InitNoise /\ [][CallNoiseImage]_vars

(***************************************************************************)
(* Properties.                                                             *)
(***************************************************************************)
IsPrefix(s, u) == Len(s) <= Len(u) /\ SubSeq(u, 1, Len(s)) = s

Finished == pc \in {"done", "aborted"}

AllDecode(provider) ==
    /\ \A n \in DOMAIN provider.bgs : Files[provider.bgs[n]].kind # "bad"
    /\ \A n \in DOMAIN provider.cells : Files[provider.cells[n]].kind # "bad"

\* C1: when every path of the provider decodes, a finished run of
\* generate_and_save has produced exactly num_imgs images, each of shape
\* (H, W, 3) with (H, W) = img_size.
C1_ExactlyNumImgs ==
    (call = NoCall /\ Finished /\ AllDecode(cfg.provider)) =>
        /\ Len(saved) = cfg.num_imgs
        /\ \A n \in DOMAIN saved :
              Shape(saved[n].img) = <<cfg.img_size[1], cfg.img_size[2], 3>>

\* C2: two independent runs constructed with the same non-None seed and the
\* same deterministic loader write the same images, end the same way and make
\* the same sequence of calls with the same sampled values.
C2_SeededRunsAgree ==
    (call = NoCall /\ run = 2 /\ cfg.seed # -1 /\ pc # "new") =>
        /\ IsPrefix(log, prev.log)
        /\ IsPrefix(saved, prev.saved)
        /\ Finished => (saved = prev.saved /\ log = prev.log /\ exc = prev.exc)

C2_Witness ==
    /\ call = NoCall /\ run = 2 /\ cfg.seed # -1 /\ pc = "done"
    /\ Len(saved) = 2 /\ saved = prev.saved
    /\ noised # {} /\ ov.called /\ ov.info.blended

\* C3: every _overlay call on a placement _generate_cell_coords can return
\* raises no exception, writes a region that lies inside the background, and
\* clips the sprite to exactly the height and width of that region.
C3_ClipInsideNoException ==
    ov.called =>
        /\ ov.exc = "none"
        /\ 0 <= ov.info.top /\ ov.info.top <= ov.info.bottom
        /\ ov.info.bottom <= ov.info.before.h
        /\ 0 <= ov.info.left /\ ov.info.left <= ov.info.right
        /\ ov.info.right <= ov.info.before.w
        /\ ov.info.clip_h = ov.info.bottom - ov.info.top
        /\ ov.info.clip_w = ov.info.right - ov.info.left

\* C4: for a sprite without an alpha channel (3 channels, or a 2-dimensional
\* single-channel array) _overlay raises no exception and leaves every pixel
\* of the background unchanged.
C4_NoAlphaIsNoop ==
    (ov.called /\ (ov.info.nd = 2 \/ ov.info.ch = 3)) =>
        /\ ov.exc = "none"
        /\ background = ov.info.before

\* the names of the files written so far are result_0 .. result_{idx-1}
SavedUpToIdx ==
    /\ Len(saved) = idx
    /\ \A n \in DOMAIN saved : saved[n].name = n - 1

\* C5: when a path served by the loader does not decode while image k is being
\* generated, the run aborts at once with the load error (the ValueError of
\* _load_image) carrying that path, exactly result_0 .. result_{k-1} have
\* been written, the abort itself writes nothing, and nothing runs afterwards.
C5_LoadErrorAborts ==
    /\ []((call = NoCall /\ loader.last # None /\ Files[loader.last].kind = "bad") =>
            /\ pc = "aborted"
            /\ exc = [type |-> "ValueError", path |-> loader.last]
            /\ SavedUpToIdx)
    /\ [][(pc' = "aborted" => saved' = saved)
          /\ ((pc = "aborted" /\ run' = run) => (pc' = "aborted" /\ idx' = idx))]_vars

C5_Witness ==
    /\ call = NoCall /\ pc = "aborted" /\ exc.type = "ValueError"
    /\ exc.path = loader.last
    /\ idx >= 1 /\ Len(saved) = idx /\ idx < cfg.num_imgs

SpriteHasAlpha(sprite) == sprite.nd = 3 /\ sprite.ch = 4

\* C6: for a sprite with an alpha channel, an overlay with transparency 1.0 and
\* alpha 255 at every sprite pixel makes each colour channel of the
\* destination region equal to the sprite's, and an overlay with
\* transparency 0.0 leaves the whole background unchanged.
C6_BlendEndpoints ==
    (ov.called /\ ov.exc = "none" /\ SpriteHasAlpha(ov.info.sprite)) =>
        /\ (ov.info.T = 100 /\ \A p \in DOMAIN ov.info.sprite.px : ov.info.sprite.px[p][4] = 255) =>
              \A p \in DOMAIN ov.info.sprite.px : \A c \in 1 .. 3 :
                  background.px[<<ov.info.coord.h + p[1], ov.info.coord.w + p[2]>>][c]
                      = ov.info.sprite.px[p][c]
        /\ ov.info.T = 0 => background = ov.info.before

C6_Witness ==
    /\ call # NoCall /\ ov.called /\ ov.exc = "none" /\ SpriteHasAlpha(ov.info.sprite)
    /\ ov.info.T = 100
    /\ \A p \in DOMAIN ov.info.sprite.px : ov.info.sprite.px[p][4] = 255
    /\ ov.info.clip_h >= 2 /\ ov.info.clip_w >= 2
    /\ ov.info.clip_w < ov.info.new_w
    /\ background # ov.info.before

\* n steps of the np.random generator
RECURSIVE NpIter(_, _)
NpIter(s, n) == IF n = 0 THEN s ELSE NpNext(NpIter(s, n - 1))

\* C7: noise_image with percent = 0 modifies no pixel; with percent = 100 it
\* overwrites every pixel (i, j), in row-major order, with the next three
\* draws of np.random.randint(0, 256), each in 0 .. 255.
C7_NoiseEndpoints ==
    (call # NoCall /\ call.op = "noise_image" /\ pc = "ret") =>
        /\ call.percent = 0 => (background = call.image /\ noised = {})
        /\ call.percent = 100 =>
              /\ noised = Pixels(call.image.h, call.image.w)
              /\ \A p \in Pixels(call.image.h, call.image.w) : \A c \in 1 .. 3 :
                    /\ background.px[p][c] \in 0 .. 255
                    /\ background.px[p][c]
                         = NpIter(call.nprng, 3 * (p[1] * call.image.w + p[2]) + c) % 256

C7_Witness ==
    /\ call # NoCall /\ call.op = "noise_image" /\ pc = "ret"
    /\ call.percent = 100
    /\ Cardinality(noised) >= 4
    /\ \A p \in noised : background.px[p] # call.image.px[p]

\* C8: every placement returned by _generate_cell_coords is a valid pixel
\* index of the background: 0 <= row < H and 0 <= column < W.
C8_PlacementIsPixel ==
    (call # NoCall /\ call.op = "_generate_cell_coords" /\ pc = "ret") =>
        \A n \in DOMAIN coords :
            /\ 0 <= coords[n].h /\ coords[n].h < cfg.img_size[1]
            /\ 0 <= coords[n].w /\ coords[n].w < cfg.img_size[2]

\* ceil(0.01 * n)
CeilPercent(n) == (n + 99) \div 100

ImageEvents(j, k) ==
    <<Event("count", j, k), Event("coords", j, k), Event("get_random_background", j, 0)>>
    \o [n \in 1 .. (2 * k) |->
          IF n % 2 = 1 THEN Event("get_random_cell", j, (n - 1) \div 2)
                       ELSE Event("overlay", j, (n - 2) \div 2)]
    \o <<Event("noise", j, 0), Event("emit", j, j)>>

IsCount(e) == e.ev = "count"

\* the calls of the images started so far, given the counts that were sampled
RECURSIVE ExpectedLog(_, _)
ExpectedLog(counts, j) ==
    IF j > Len(counts) THEN <<>>
    ELSE ImageEvents(j - 1, counts[j].n) \o ExpectedLog(counts, j + 1)

\* C10: the calls of a run are, image after image from index 0, one count k
\* with min_cells <= k <= max_cells, k placements, one get_random_background,
\* then k times get_random_cell followed by the overlay of that sprite, then
\* one noise, then the emit of result_<idx>; a run that ends normally has
\* done so for exactly num_imgs images.
C10_PipelineOrder ==
    call = NoCall =>
        LET counts == SelectSeq(log, IsCount) IN
        /\ IsPrefix(log, ExpectedLog(counts, 1))
        /\ Len(counts) <= cfg.num_imgs
        /\ \A n \in DOMAIN counts :
              cfg.cells[1] <= counts[n].n /\ counts[n].n <= cfg.cells[2]
        /\ \A n \in DOMAIN saved : saved[n].name = n - 1
        /\ pc = "done" =>
              /\ log = ExpectedLog(counts, 1)
              /\ Len(counts) = cfg.num_imgs
              /\ Len(saved) = cfg.num_imgs

C10_Witness ==
    /\ call = NoCall /\ pc = "done" /\ cfg.num_imgs = 2 /\ Len(saved) = 2
    /\ num_cells = 2
    /\ \E n \in DOMAIN log : log[n] = Event("overlay", 0, 0)
    /\ \E n \in DOMAIN log : log[n] = Event("overlay", 1, 1)

====
